---------------------------- MODULE Spec2Model ----------------------------
(***************************************************************************)
(* Pairing / queue engine of the anonymous chat bot (src/anon_bot.py; the  *)
(* webhook entry point src/api/webhook.py carries the same functions).     *)
(*                                                                         *)
(* The three Postgres tables are sets of rows.  Every handler is a thread  *)
(* that executes one SQL transaction (or one lock-protected helper) per    *)
(* step, so that handlers interleave exactly where the code commits.  A    *)
(* helper of the pool runs inside "with queue_lock:": taking the lock is a *)
(* step of its own (acquire), the helper's transaction the next.           *)
(*                                                                         *)
(* Time: an active_chats row carries age = NOW() - timestamp in minutes,   *)
(* saturating one minute past the Reaper's threshold, where the only       *)
(* comparison the code makes on it is decided.  queues.timestamp is only   *)
(* ever used by ORDER BY, so it is the rank of the NOW() that stamped it   *)
(* (qclock), strictly increasing because every stamping transaction starts *)
(* inside queue_lock.  The rate limiter keeps time.time() stamps and only  *)
(* compares now - t with one second: a stamp is its age in fifths of a     *)
(* second, saturating at the window.                                       *)
(*                                                                         *)
(* Failures: the transport delivers every message; the store is available  *)
(* except inside the pairing transaction of try_pair_gender, which may     *)
(* raise at any run (tp_fail), the failure the rollback claim is about,    *)
(* and in the Reaper's loop taken by steps (rp_getconn, rp_cursor,         *)
(* rp_execute), where every call on the store may raise.                   *)
(*                                                                         *)
(* Specifications: Spec is the pairing engine, all handlers on all         *)
(* threads, with the sweep as one transaction that succeeds.  ReaperSpec   *)
(* is the Reaper's loop by steps beside one thread of declarations.        *)
(* RelaySpec is handle_generic_message beside one thread of declarations   *)
(* and stops.  RateSpec is the rate limiter under its own clock.           *)
(*                                                                         *)
(* Instrumentation: a handler that runs with no other step changing a      *)
(* table meanwhile (solo) keeps the tables it started from and the         *)
(* messages it sent; when it returns they are exposed in last for the one  *)
(* state that follows its final step.                                      *)
(***************************************************************************)
EXTENDS Integers, Sequences, FiniteSets, TLC

\* ----------------------------------------------------------------- bounds
NumUsers == 3
MaxThreads == 2
MaxOps == 4
NumNicks == 1

\* -------------------------------------------------------- program constants
\* INTERVAL '5 minutes' of the Reaper's DELETE, in minutes
ReapAge == 5

\* the window of is_rate_limited (now - t < 1: one second), in fifths of a second
RateWindow == 5

USERS == 1..NumUsers
THREADS == 1..MaxThreads
GENDERS == {"male", "female"}
None == 0
NoRow == [user_id |-> None, gender |-> "none", nick |-> None, timestamp |-> 0]

VARIABLES
    queues,        \* table queues(user_id PK, gender, nick, timestamp)
    active_chats,  \* table active_chats(user_id PK, partner_id, timestamp), as age
    user_genders,  \* table user_genders(user_id PK, gender)
    qclock,        \* rank of the last NOW() that stamped a queues row
    th,            \* the request handlers in flight
    ops,           \* handlers started so far
    last,          \* what the handler that has just returned did, if it ran solo
    queue_lock,    \* the thread inside "with queue_lock:", or None
    reaper,        \* the cleanup_inactive thread: where it is, whether cur is bound
    rate_limits,   \* rate_limits[user_id]: the kept timestamps, each as its age
    rl             \* the handle_generic_message call in flight

vars == <<queues, active_chats, user_genders, qclock, th, ops, last,
          queue_lock, reaper, rate_limits, rl>>

\* ---------------------------------------------------------------- helpers
opposite(gender) == IF gender = "male" THEN "female" ELSE "male"

\* generate_pseudonym: a random base of the gender's list and a random number
generate_pseudonym(gender) == {<<gender, i>> : i \in 1..NumNicks}

Idle ==
    [op |-> "idle", pc |-> "idle", user_id |-> None, gender |-> "none",
     partner_id |-> None, partner_data |-> NoRow, solo |-> FALSE, msgs |-> <<>>,
     pre_queues |-> {}, pre_chats |-> {}, pre_genders |-> {}]

NoLast ==
    [op |-> "none", user_id |-> None, gender |-> "none", partner_id |-> None,
     outcome |-> "none", msgs |-> <<>>,
     pre_queues |-> {}, pre_chats |-> {}, pre_genders |-> {}]

\* SELECT partner_id FROM active_chats WHERE user_id = u  (None: no row)
chat_rows(chats, u) == {r \in chats : r.user_id = u}
partner_of(u) ==
    IF chat_rows(active_chats, u) = {} THEN None
    ELSE (CHOOSE r \in chat_rows(active_chats, u) : TRUE).partner_id

\* SELECT gender FROM user_genders WHERE user_id = u  ("none": no row)
gender_rows(genders, u) == {r \in genders : r.user_id = u}
gender_of(u) ==
    IF gender_rows(user_genders, u) = {} THEN "none"
    ELSE (CHOOSE r \in gender_rows(user_genders, u) : TRUE).gender

\* a handler another handler's commit has interfered with keeps no transcript
strip(rec) ==
    [rec EXCEPT !.solo = FALSE, !.msgs = <<>>,
                !.pre_queues = {}, !.pre_chats = {}, !.pre_genders = {}]

\* this step committed a change to a table
wrote == <<queues', active_chats', user_genders'>> # <<queues, active_chats, user_genders>>

\* the threads after thread t has moved to record rec
stepped(t, rec) ==
    [x \in THREADS |->
        IF x = t THEN rec
        ELSE IF wrote /\ th[x].op # "idle" THEN strip(th[x])
        ELSE th[x]]

\* a handler starts on the lowest free thread, from the tables as they are
free(t) == th[t].op = "idle" /\ \A x \in THREADS : x < t => th[x].op # "idle"
begin(op, u) ==
    [Idle EXCEPT !.op = op, !.user_id = u, !.solo = TRUE, !.pre_queues = queues,
                 !.pre_chats = active_chats, !.pre_genders = user_genders]

\* bot.send_message / bot.reply_to
send(rec, to, kind) ==
    IF rec.solo THEN Append(rec.msgs, [to |-> to, kind |-> kind]) ELSE rec.msgs

\* the handler returns
returned(rec, outcome) ==
    IF rec.solo
    THEN [op |-> rec.op, user_id |-> rec.user_id, gender |-> rec.gender,
          partner_id |-> rec.partner_id, outcome |-> outcome, msgs |-> rec.msgs,
          pre_queues |-> rec.pre_queues, pre_chats |-> rec.pre_chats,
          pre_genders |-> rec.pre_genders]
    ELSE NoLast

\* no handle_generic_message call in flight
NoPayload == [type |-> "none", text |-> <<>>]
RelayIdle == [pc |-> "idle", user_id |-> None, payload |-> NoPayload, partner_id |-> None]

\* ------------------------------------------------------------ Waiting Pool
\* the program points at which a handler is about to enter "with queue_lock:"
QUEUE_PCS == {"tp_claim", "tp_enqueue", "nx_remove", "st_remove", "st_unqueue"}

\* with queue_lock: the handler takes the lock of get_queue, add_to_queue or
\* remove_from_queue; it waits while another thread is inside
acquire(t) ==
    /\ th[t].pc \in QUEUE_PCS
    /\ queue_lock = None
    /\ queue_lock' = t
    /\ UNCHANGED <<queues, active_chats, user_genders, qclock, th, ops>>
    /\ UNCHANGED <<reaper, rate_limits, rl>>
    /\ last' = NoLast

\* mutant of get_queue: ORDER BY timestamp DESC
get_queue_newest(q, gender) ==
    LET cand == {r \in q : r.gender = gender}
    IN IF cand = {} THEN NoRow
       ELSE CHOOSE r \in cand : \A o \in cand : r.timestamp >= o.timestamp

\* get_queue: SELECT ... WHERE gender=%s ORDER BY timestamp ... LIMIT 1
get_queue(q, gender) ==
    LET cand == {r \in q : r.gender = gender}
    IN IF cand = {} THEN NoRow
       ELSE CHOOSE r \in cand : \A o \in cand : r.timestamp <= o.timestamp

\* mutant of claim: the selected row is returned but not deleted
claim_keep(q, row) == q

\* get_queue: DELETE FROM queues WHERE user_id = row.user_id; commit
claim(q, row) == {r \in q : r.user_id # row.user_id}

\* mutant of add_to_queue: ON CONFLICT (user_id) DO NOTHING
add_to_queue_nothing(q, user_id, gender, nick) ==
    IF \E r \in q : r.user_id = user_id THEN q
    ELSE q \cup {[user_id |-> user_id, gender |-> gender, nick |-> nick, timestamp |-> qclock + 1]}

\* add_to_queue: INSERT ... ON CONFLICT (user_id) DO UPDATE SET gender, nick, timestamp=NOW()
add_to_queue(q, user_id, gender, nick) ==
    {r \in q : r.user_id # user_id}
        \cup {[user_id |-> user_id, gender |-> gender, nick |-> nick, timestamp |-> qclock + 1]}

\* remove_from_queue: DELETE FROM queues WHERE user_id = %s
remove_from_queue(q, user_id) == {r \in q : r.user_id # user_id}

\* ----------------------------------------------------------- Session Store
\* mutant of upsert_chat: a plain INSERT on a table without the primary key
upsert_chat_plain(chats, user_id, partner_id, onconflict) ==
    chats \cup {[user_id |-> user_id, partner_id |-> partner_id, age |-> 0]}

\* one proposed row of INSERT INTO active_chats (user_id, partner_id) ...
\* ON CONFLICT (user_id) DO UPDATE SET partner_id = onconflict
upsert_chat(chats, user_id, partner_id, onconflict) ==
    IF chat_rows(chats, user_id) # {}
    THEN {IF r.user_id = user_id THEN [r EXCEPT !.partner_id = onconflict] ELSE r : r \in chats}
    ELSE chats \cup {[user_id |-> user_id, partner_id |-> partner_id, age |-> 0]}

\* UPDATE active_chats SET timestamp = NOW() WHERE user_id IN (a, b)
touch(chats, a, b) ==
    {IF r.user_id \in {a, b} THEN [r EXCEPT !.age = 0] ELSE r : r \in chats}

\* try_pair_gender's pairing transaction: VALUES (user_id, partner_id),
\* (partner_id, user_id), the conflict action binding the parameter partner_id
\* for both proposed rows; then the timestamp refresh; commit
create_pair(chats, user_id, partner_id) ==
    touch(upsert_chat(upsert_chat(chats, user_id, partner_id, partner_id),
                      partner_id, user_id, partner_id),
          user_id, partner_id)

\* DELETE FROM active_chats WHERE user_id IN (...)
delete_chats(chats, ids) == {r \in chats : r.user_id \notin ids}

\* mutant of expire: timestamp <= NOW() - INTERVAL '5 minutes'
expire_inclusive(chats) == {r \in chats : ~(r.age >= ReapAge)}

\* DELETE FROM active_chats WHERE timestamp < NOW() - INTERVAL '5 minutes'
expire(chats) == {r \in chats : ~(r.age > ReapAge)}

\* ------------------------------------------------------------------- Init
Init ==
    /\ queues = {}
    /\ active_chats = {}
    /\ user_genders = {}
    /\ qclock = 0
    /\ th = [t \in THREADS |-> Idle]
    /\ ops = 0
    /\ last = NoLast
    /\ queue_lock = None
    /\ reaper = [pc |-> "sleep", cur |-> FALSE]
    /\ rate_limits = [u \in USERS |-> <<>>]
    /\ rl = RelayIdle

\* ---------------------------------------------------------- handle_gender
\* INSERT INTO user_genders ... ON CONFLICT (user_id) DO UPDATE SET gender;
\* commit; then try_pair_gender(user_id, gender)
handle_gender(t, u, g) ==
    /\ free(t)
    /\ ops < MaxOps
    /\ ops' = ops + 1
    /\ user_genders' = {r \in user_genders : r.user_id # u} \cup {[user_id |-> u, gender |-> g]}
    /\ UNCHANGED <<queues, active_chats, qclock>>
    /\ UNCHANGED <<queue_lock, reaper, rate_limits, rl>>
    /\ th' = stepped(t, [begin("gender", u) EXCEPT !.pc = "tp_check", !.gender = g])
    /\ last' = NoLast

\* -------------------------------------------------------- try_pair_gender
\* mutant of tp_check: the "already in a chat" guard is missing
tp_check_unguarded(t) ==
    /\ th[t].pc = "tp_check"
    /\ UNCHANGED <<queues, active_chats, user_genders, qclock, ops>>
    /\ UNCHANGED <<queue_lock, reaper, rate_limits, rl>>
    /\ th' = stepped(t, [th[t] EXCEPT !.pc = "tp_claim"])
    /\ last' = NoLast

\* the guard: SELECT partner_id FROM active_chats WHERE user_id; return if a row
tp_check(t) ==
    /\ th[t].pc = "tp_check"
    /\ UNCHANGED <<queues, active_chats, user_genders, qclock, ops>>
    /\ UNCHANGED <<queue_lock, reaper, rate_limits, rl>>
    /\ IF partner_of(th[t].user_id) # None
       THEN /\ th' = stepped(t, Idle)
            /\ last' = returned(th[t], "already")
       ELSE /\ th' = stepped(t, [th[t] EXCEPT !.pc = "tp_claim"])
            /\ last' = NoLast

\* partner_data = get_queue(opposite gender): select and delete under queue_lock
tp_claim(t) ==
    /\ th[t].pc = "tp_claim"
    /\ LET row == get_queue(queues, opposite(th[t].gender))
       IN /\ queues' = IF row # NoRow THEN claim(queues, row) ELSE queues
          /\ UNCHANGED <<active_chats, user_genders, qclock, ops>>
          /\ queue_lock = t /\ queue_lock' = None
          /\ UNCHANGED <<reaper, rate_limits, rl>>
          /\ th' = stepped(t,
                     IF row # NoRow
                     THEN [th[t] EXCEPT !.pc = "tp_pair", !.partner_id = row.user_id,
                                        !.partner_data = row]
                     ELSE [th[t] EXCEPT !.pc = "tp_enqueue"])
    /\ last' = NoLast

\* the pairing transaction and the two "Chat dimulai" messages.  Proposing
\* the same key twice (partner_id = user_id) makes Postgres raise "ON CONFLICT
\* DO UPDATE command cannot affect row a second time": that run is tp_fail.
tp_pair(t) ==
    /\ th[t].pc = "tp_pair"
    /\ th[t].partner_id # th[t].user_id
    /\ active_chats' = create_pair(active_chats, th[t].user_id, th[t].partner_id)
    /\ UNCHANGED <<queues, user_genders, qclock, ops>>
    /\ UNCHANGED <<queue_lock, reaper, rate_limits, rl>>
    /\ th' = stepped(t, Idle)
    /\ last' = returned(
            [th[t] EXCEPT !.msgs = send([th[t] EXCEPT !.msgs = send(th[t], th[t].user_id, "paired")],
                                        th[t].partner_id, "paired")],
            "paired")

\* the store raises inside the pairing transaction (connection, INSERT,
\* UPDATE or commit): the except branch, "Maaf, ada error" to the user
tp_fail(t) ==
    /\ th[t].pc = "tp_pair"
    /\ UNCHANGED <<queues, active_chats, user_genders, qclock, ops>>
    /\ UNCHANGED <<queue_lock, reaper, rate_limits, rl>>
    /\ th' = stepped(t, Idle)
    /\ last' = returned([th[t] EXCEPT !.msgs = send(th[t], th[t].user_id, "error")], "error")

\* nick = generate_pseudonym(gender); add_to_queue; "Sedang mencari" message
tp_enqueue(t) ==
    /\ th[t].pc = "tp_enqueue"
    /\ \E nick \in generate_pseudonym(th[t].gender) :
          queues' = add_to_queue(queues, th[t].user_id, th[t].gender, nick)
    /\ qclock' = qclock + 1
    /\ UNCHANGED <<active_chats, user_genders, ops>>
    /\ queue_lock = t /\ queue_lock' = None
    /\ UNCHANGED <<reaper, rate_limits, rl>>
    /\ th' = stepped(t, Idle)
    /\ last' = returned([th[t] EXCEPT !.msgs = send(th[t], th[t].user_id, "queued")], "queued")

\* ------------------------------------------------------------- next_match
\* mutant of next_match: a user without a partner is sent on to re-match
next_match_requeue(t, u) ==
    /\ free(t)
    /\ ops < MaxOps
    /\ ops' = ops + 1
    /\ UNCHANGED <<queues, active_chats, user_genders, qclock>>
    /\ UNCHANGED <<queue_lock, reaper, rate_limits, rl>>
    /\ th' = stepped(t, [begin("next", u) EXCEPT !.pc = IF partner_of(u) # None THEN "nx_delete" ELSE "nx_gender",
                                                 !.partner_id = partner_of(u)])
    /\ last' = NoLast

\* SELECT partner_id; without a partner: "Kamu belum dalam chat"
next_match(t, u) ==
    /\ free(t)
    /\ ops < MaxOps
    /\ ops' = ops + 1
    /\ UNCHANGED <<queues, active_chats, user_genders, qclock>>
    /\ UNCHANGED <<queue_lock, reaper, rate_limits, rl>>
    /\ IF partner_of(u) # None
       THEN /\ th' = stepped(t, [begin("next", u) EXCEPT !.pc = "nx_delete", !.partner_id = partner_of(u)])
            /\ last' = NoLast
       ELSE /\ th' = stepped(t, Idle)
            /\ last' = returned([begin("next", u) EXCEPT !.msgs = send(begin("next", u), u, "not_in_chat")],
                                "not_paired")

\* "Pasanganmu pindah" to the partner; DELETE FROM active_chats WHERE
\* user_id IN (user_id, partner_id); commit
nx_delete(t) ==
    /\ th[t].pc = "nx_delete"
    /\ active_chats' = delete_chats(active_chats, {th[t].user_id, th[t].partner_id})
    /\ UNCHANGED <<queues, user_genders, qclock, ops>>
    /\ UNCHANGED <<queue_lock, reaper, rate_limits, rl>>
    /\ th' = stepped(t, [th[t] EXCEPT !.pc = "nx_remove",
                                      !.msgs = send(th[t], th[t].partner_id, "partner_next")])
    /\ last' = NoLast

\* remove_from_queue(partner_id)
nx_remove(t) ==
    /\ th[t].pc = "nx_remove"
    /\ queues' = remove_from_queue(queues, th[t].partner_id)
    /\ UNCHANGED <<active_chats, user_genders, qclock, ops>>
    /\ queue_lock = t /\ queue_lock' = None
    /\ UNCHANGED <<reaper, rate_limits, rl>>
    /\ th' = stepped(t, [th[t] EXCEPT !.pc = "nx_gender"])
    /\ last' = NoLast

\* SELECT gender FROM user_genders; try_pair_gender(user_id, gender) if a row
nx_gender(t) ==
    /\ th[t].pc = "nx_gender"
    /\ UNCHANGED <<queues, active_chats, user_genders, qclock, ops>>
    /\ UNCHANGED <<queue_lock, reaper, rate_limits, rl>>
    /\ IF gender_of(th[t].user_id) # "none"
       THEN /\ th' = stepped(t, [th[t] EXCEPT !.pc = "tp_check", !.gender = gender_of(th[t].user_id),
                                              !.partner_id = None])
            /\ last' = NoLast
       ELSE /\ th' = stepped(t, Idle)
            /\ last' = returned(th[t], "no_gender")

\* ------------------------------------------------------------------- stop
\* SELECT partner_id FROM active_chats WHERE user_id
stop(t, u) ==
    /\ free(t)
    /\ ops < MaxOps
    /\ ops' = ops + 1
    /\ UNCHANGED <<queues, active_chats, user_genders, qclock>>
    /\ UNCHANGED <<queue_lock, reaper, rate_limits, rl>>
    /\ th' = stepped(t, [begin("stop", u) EXCEPT
                            !.pc = IF partner_of(u) # None THEN "st_delete" ELSE "st_self",
                            !.partner_id = partner_of(u)])
    /\ last' = NoLast

\* mutant of st_delete: DELETE FROM active_chats WHERE user_id = user_id
st_delete_own(t) ==
    /\ th[t].pc = "st_delete"
    /\ active_chats' = delete_chats(active_chats, {th[t].user_id})
    /\ UNCHANGED <<queues, user_genders, qclock, ops>>
    /\ UNCHANGED <<queue_lock, reaper, rate_limits, rl>>
    /\ th' = stepped(t, [th[t] EXCEPT !.pc = "st_remove",
                                      !.msgs = send(th[t], th[t].partner_id, "partner_stop")])
    /\ last' = NoLast

\* "Pasanganmu stop" to the partner; DELETE FROM active_chats WHERE
\* user_id IN (user_id, partner_id); commit
st_delete(t) ==
    /\ th[t].pc = "st_delete"
    /\ active_chats' = delete_chats(active_chats, {th[t].user_id, th[t].partner_id})
    /\ UNCHANGED <<queues, user_genders, qclock, ops>>
    /\ UNCHANGED <<queue_lock, reaper, rate_limits, rl>>
    /\ th' = stepped(t, [th[t] EXCEPT !.pc = "st_remove",
                                      !.msgs = send(th[t], th[t].partner_id, "partner_stop")])
    /\ last' = NoLast

\* remove_from_queue(partner_id)
st_remove(t) ==
    /\ th[t].pc = "st_remove"
    /\ queues' = remove_from_queue(queues, th[t].partner_id)
    /\ UNCHANGED <<active_chats, user_genders, qclock, ops>>
    /\ queue_lock = t /\ queue_lock' = None
    /\ UNCHANGED <<reaper, rate_limits, rl>>
    /\ th' = stepped(t, [th[t] EXCEPT !.pc = "st_self"])
    /\ last' = NoLast

\* mutant of st_self: DELETE FROM user_genders without its WHERE
st_self_all(t) ==
    /\ th[t].pc = "st_self"
    /\ active_chats' = delete_chats(active_chats, {th[t].user_id})
    /\ user_genders' = {}
    /\ UNCHANGED <<queues, qclock, ops>>
    /\ UNCHANGED <<queue_lock, reaper, rate_limits, rl>>
    /\ th' = stepped(t, [th[t] EXCEPT !.pc = "st_unqueue"])
    /\ last' = NoLast

\* DELETE FROM active_chats WHERE user_id; DELETE FROM user_genders WHERE
\* user_id.  The two deletes take effect on the rows there when they execute;
\* the commit that publishes them follows remove_from_queue(user_id).
st_self(t) ==
    /\ th[t].pc = "st_self"
    /\ active_chats' = delete_chats(active_chats, {th[t].user_id})
    /\ user_genders' = {r \in user_genders : r.user_id # th[t].user_id}
    /\ UNCHANGED <<queues, qclock, ops>>
    /\ UNCHANGED <<queue_lock, reaper, rate_limits, rl>>
    /\ th' = stepped(t, [th[t] EXCEPT !.pc = "st_unqueue"])
    /\ last' = NoLast

\* remove_from_queue(user_id); conn.commit()
st_unqueue(t) ==
    /\ th[t].pc = "st_unqueue"
    /\ queues' = remove_from_queue(queues, th[t].user_id)
    /\ UNCHANGED <<active_chats, user_genders, qclock, ops>>
    /\ queue_lock = t /\ queue_lock' = None
    /\ UNCHANGED <<reaper, rate_limits, rl>>
    /\ th' = stepped(t, Idle)
    /\ last' = returned(th[t], "stopped")

\* ------------------------------------------------------------------ start
\* SELECT partner_id; in a chat: "Kamu sudah dalam chat" and return
start(t, u) ==
    /\ free(t)
    /\ ops < MaxOps
    /\ ops' = ops + 1
    /\ UNCHANGED <<queues, active_chats, user_genders, qclock>>
    /\ UNCHANGED <<queue_lock, reaper, rate_limits, rl>>
    /\ IF partner_of(u) # None
       THEN /\ th' = stepped(t, Idle)
            /\ last' = returned([begin("start", u) EXCEPT !.msgs = send(begin("start", u), u, "already_in_chat")],
                                "already")
       ELSE /\ th' = stepped(t, [begin("start", u) EXCEPT !.pc = "sa_delete"])
            /\ last' = NoLast

\* mutant of sa_delete: the welcome keyboard without the DELETE
sa_delete_skip(t) ==
    /\ th[t].pc = "sa_delete"
    /\ UNCHANGED <<queues, active_chats, user_genders, qclock, ops>>
    /\ UNCHANGED <<queue_lock, reaper, rate_limits, rl>>
    /\ th' = stepped(t, Idle)
    /\ last' = returned([th[t] EXCEPT !.msgs = send(th[t], th[t].user_id, "welcome")], "welcome")

\* DELETE FROM user_genders WHERE user_id; commit; the welcome keyboard
sa_delete(t) ==
    /\ th[t].pc = "sa_delete"
    /\ user_genders' = {r \in user_genders : r.user_id # th[t].user_id}
    /\ UNCHANGED <<queues, active_chats, qclock, ops>>
    /\ UNCHANGED <<queue_lock, reaper, rate_limits, rl>>
    /\ th' = stepped(t, Idle)
    /\ last' = returned([th[t] EXCEPT !.msgs = send(th[t], th[t].user_id, "welcome")], "welcome")

\* ----------------------------------------------------------------- Reaper
\* one sweep of cleanup_inactive that meets no failure, as one transaction,
\* on the Reaper's own thread (no handler thread moves: 0 is none of THREADS)
cleanup_inactive ==
    /\ active_chats' = expire(active_chats)
    /\ UNCHANGED <<queues, user_genders, qclock, ops>>
    /\ UNCHANGED <<queue_lock, reaper, rate_limits, rl>>
    /\ th' = stepped(0, Idle)
    /\ last' = NoLast

\* a minute passes: every session row is a minute older, and every timestamp
\* the rate limiter keeps is older than its window
Tick ==
    /\ \E r \in active_chats : r.age <= ReapAge
    /\ active_chats' = {IF r.age <= ReapAge THEN [r EXCEPT !.age = r.age + 1] ELSE r : r \in active_chats}
    /\ rate_limits' = [u \in USERS |-> [i \in DOMAIN rate_limits[u] |-> RateWindow]]
    /\ UNCHANGED <<queues, user_genders, qclock, th, ops>>
    /\ UNCHANGED <<queue_lock, reaper, rl>>
    /\ last' = NoLast

\* --------------------------------------------- the Reaper's loop, by steps
\* what one iteration of cleanup_inactive's loop shows when it ends
swept(outcome) ==
    [NoLast EXCEPT !.op = "sweep", !.outcome = outcome, !.pre_queues = queues,
                   !.pre_chats = active_chats, !.pre_genders = user_genders]

\* time.sleep(300) is over; conn = get_db_connection(), outside the try: when
\* it raises, the exception leaves the loop and the thread ends
rp_getconn ==
    /\ reaper.pc = "sleep"
    /\ \E ok \in BOOLEAN : reaper' = [reaper EXCEPT !.pc = IF ok THEN "cursor" ELSE "dead"]
    /\ UNCHANGED <<queues, active_chats, user_genders, qclock, th, ops, queue_lock, rate_limits, rl>>
    /\ last' = NoLast

\* cur = conn.cursor().  When it raises, the except branch logs and the
\* finally block runs cur.close(): on a cur bound by an earlier iteration that
\* closes it again and the loop goes on; on the unbound cur of an iteration
\* before any cursor was opened it raises UnboundLocalError out of the loop
rp_cursor ==
    /\ reaper.pc = "cursor"
    /\ \E ok \in BOOLEAN :
          IF ok THEN /\ reaper' = [pc |-> "execute", cur |-> TRUE]
                     /\ last' = NoLast
          ELSE /\ reaper' = [reaper EXCEPT !.pc = IF reaper.cur THEN "sleep" ELSE "dead"]
               /\ last' = swept("error")
    /\ UNCHANGED <<queues, active_chats, user_genders, qclock, th, ops, queue_lock, rate_limits, rl>>

\* mutant of rp_execute: the sweep also withdraws the users of the sessions
\* it expires from the pool
rp_execute_withdraw ==
    /\ reaper.pc = "execute"
    /\ \E ok \in BOOLEAN :
          /\ active_chats' = IF ok THEN expire(active_chats) ELSE active_chats
          /\ queues' = IF ok THEN {e \in queues : chat_rows(active_chats \ expire(active_chats), e.user_id) = {}}
                             ELSE queues
          /\ last' = swept(IF ok THEN "done" ELSE "error")
    /\ reaper' = [reaper EXCEPT !.pc = "sleep"]
    /\ UNCHANGED <<user_genders, qclock, ops, queue_lock, rate_limits, rl>>
    /\ th' = stepped(0, Idle)

\* the DELETE and conn.commit(); when either raises, the except branch logs,
\* putconn rolls the transaction back, and the loop goes on
rp_execute ==
    /\ reaper.pc = "execute"
    /\ \E ok \in BOOLEAN :
          /\ active_chats' = IF ok THEN expire(active_chats) ELSE active_chats
          /\ last' = swept(IF ok THEN "done" ELSE "error")
    /\ reaper' = [reaper EXCEPT !.pc = "sleep"]
    /\ UNCHANGED <<queues, user_genders, qclock, ops, queue_lock, rate_limits, rl>>
    /\ th' = stepped(0, Idle)

\* ------------------------------------------------------------ Rate Limiter
\* a fifth of a second passes: every kept timestamp is that much older (an
\* age of a full window is told apart from no older one by nothing)
Elapse ==
    /\ \E u \in USERS : \E i \in DOMAIN rate_limits[u] : rate_limits[u][i] < RateWindow
    /\ rate_limits' = [u \in USERS |->
            [i \in DOMAIN rate_limits[u] |->
                IF rate_limits[u][i] < RateWindow THEN rate_limits[u][i] + 1 ELSE rate_limits[u][i]]]
    /\ UNCHANGED <<queues, active_chats, user_genders, qclock, th, ops, queue_lock, reaper, rl>>
    /\ last' = NoLast

\* [t for t in rate_limits[user_id] if now - t < 1]
recent(stamps) == SelectSeq(stamps, LAMBDA age : age < RateWindow)

\* mutant of is_rate_limited: two messages a window
is_rate_limited_twice(stamps) == Len(recent(stamps)) >= 2

\* is_rate_limited, its verdict: len(rate_limits[user_id]) >= 1 after pruning
is_rate_limited(stamps) == Len(recent(stamps)) >= 1

\* is_rate_limited, the list it leaves: pruned, and now appended if it admits
rate_limits_after(stamps) ==
    IF is_rate_limited(stamps) THEN recent(stamps) ELSE Append(recent(stamps), 0)

\* ------------------------------------------------------------------ relay
\* a text (message.text) is the sequence of its characters
UPPER == <<"A","B","C","D","E","F","G","H","I","J","K","L","M",
           "N","O","P","Q","R","S","T","U","V","W","X","Y","Z">>
LOWER == <<"a","b","c","d","e","f","g","h","i","j","k","l","m",
           "n","o","p","q","r","s","t","u","v","w","x","y","z">>
FORBIDDEN_WORDS == <<
    <<"s","p","a","m">>,
    <<"b","a","d","w","o","r","d">> >>

\* the texts users send
Hi == <<"h","i">>
SpamContent == <<"t","h","i","s"," ","i","s"," ","s","p","a","m"," ","c","o","n","t","e","n","t">>
MixedCase == <<"S","p","A","m","!">>
Shouted == <<"n","o"," ","B","A","D","W","O","R","D">>
NearMiss == <<"s","p"," ","a","m">>
TEXTS == {Hi, SpamContent, MixedCase, Shouted, NearMiss}
PAYLOADS == [type : {"text"}, text : TEXTS] \cup [type : {"photo"}, text : {<<>>, SpamContent}]

\* str.lower()
lower(text) ==
    [i \in DOMAIN text |->
        IF \E k \in DOMAIN UPPER : UPPER[k] = text[i]
        THEN LOWER[CHOOSE k \in DOMAIN UPPER : UPPER[k] = text[i]]
        ELSE text[i]]

\* word in text
contains(text, word) ==
    \E i \in 0..(Len(text) - Len(word)) : SubSeq(text, i + 1, i + Len(word)) = word

\* mutant of check_forbidden: the text is not lowered
check_forbidden_exact(text) ==
    \E k \in DOMAIN FORBIDDEN_WORDS : contains(text, FORBIDDEN_WORDS[k])

\* check_forbidden: any(word in text.lower() for word in FORBIDDEN_WORDS)
check_forbidden(text) ==
    \E k \in DOMAIN FORBIDDEN_WORDS : contains(lower(text), FORBIDDEN_WORDS[k])

\* what a handle_generic_message call shows when it returns
relayed(user_id, outcome, to, kind) ==
    [NoLast EXCEPT !.op = "relay", !.user_id = user_id,
                   !.partner_id = rl.partner_id, !.outcome = outcome,
                   !.msgs = <<[to |-> to, kind |-> kind]>>,
                   !.pre_queues = queues, !.pre_chats = active_chats, !.pre_genders = user_genders]

\* handle_generic_message: is_rate_limited(user_id); limited: "Terlalu cepat"
relay(u, payload) ==
    /\ rl.pc = "idle"
    /\ ops < MaxOps
    /\ ops' = ops + 1
    /\ rate_limits' = [rate_limits EXCEPT ![u] = rate_limits_after(rate_limits[u])]
    /\ IF is_rate_limited(rate_limits[u])
       THEN /\ rl' = RelayIdle
            /\ last' = relayed(u, "rate_limited", u, "too_fast")
       ELSE /\ rl' = [RelayIdle EXCEPT !.pc = "rl_lookup", !.user_id = u, !.payload = payload]
            /\ last' = NoLast
    /\ UNCHANGED <<queues, active_chats, user_genders, qclock, th, queue_lock, reaper>>

\* mutant of rl_lookup: the lookup also refreshes the session's timestamps
rl_lookup_touch ==
    /\ rl.pc = "rl_lookup"
    /\ active_chats' = touch(active_chats, rl.user_id, partner_of(rl.user_id))
    /\ LET partner_id == partner_of(rl.user_id)
       IN IF partner_id = None
          THEN /\ rl' = RelayIdle
               /\ last' = relayed(rl.user_id, "not_paired", rl.user_id, "no_partner")
          ELSE IF rl.payload.type = "text" /\ check_forbidden(rl.payload.text)
          THEN /\ rl' = RelayIdle
               /\ last' = relayed(rl.user_id, "policy", rl.user_id, "forbidden")
          ELSE /\ rl' = [rl EXCEPT !.pc = "rl_send", !.partner_id = partner_id]
               /\ last' = NoLast
    /\ UNCHANGED <<queues, user_genders, qclock, th, ops, queue_lock, reaper, rate_limits>>

\* SELECT partner_id FROM active_chats WHERE user_id; no row: "Belum ada
\* pasangan"; a text that check_forbidden rejects: "kata terlarang"
rl_lookup ==
    /\ rl.pc = "rl_lookup"
    /\ LET partner_id == partner_of(rl.user_id)
       IN IF partner_id = None
          THEN /\ rl' = RelayIdle
               /\ last' = relayed(rl.user_id, "not_paired", rl.user_id, "no_partner")
          ELSE IF rl.payload.type = "text" /\ check_forbidden(rl.payload.text)
          THEN /\ rl' = RelayIdle
               /\ last' = relayed(rl.user_id, "policy", rl.user_id, "forbidden")
          ELSE /\ rl' = [rl EXCEPT !.pc = "rl_send", !.partner_id = partner_id]
               /\ last' = NoLast
    /\ UNCHANGED <<queues, active_chats, user_genders, qclock, th, ops, queue_lock, reaper, rate_limits>>

\* bot.send_message(partner_id, "*Anon:* " + text), or bot.forward_message
rl_send ==
    /\ rl.pc = "rl_send"
    /\ rl' = RelayIdle
    /\ last' = relayed(rl.user_id, "forwarded", rl.partner_id, IF rl.payload.type = "text" THEN "anon_text" ELSE "forward")
    /\ UNCHANGED <<queues, active_chats, user_genders, qclock, th, ops, queue_lock, reaper, rate_limits>>

\* ------------------------------------------------------------------- Next
Next ==
    \/ \E t \in THREADS : acquire(t)
    \/ \E t \in THREADS, u \in USERS, g \in GENDERS : handle_gender(t, u, g)
    \/ \E t \in THREADS : tp_check(t)
    \/ \E t \in THREADS : tp_claim(t)
    \/ \E t \in THREADS : tp_pair(t)
    \/ \E t \in THREADS : tp_fail(t)
    \/ \E t \in THREADS : tp_enqueue(t)
    \/ \E t \in THREADS, u \in USERS : next_match(t, u)
    \/ \E t \in THREADS : nx_delete(t)
    \/ \E t \in THREADS : nx_remove(t)
    \/ \E t \in THREADS : nx_gender(t)
    \/ \E t \in THREADS, u \in USERS : stop(t, u)
    \/ \E t \in THREADS : st_delete(t)
    \/ \E t \in THREADS : st_remove(t)
    \/ \E t \in THREADS : st_self(t)
    \/ \E t \in THREADS : st_unqueue(t)
    \/ \E t \in THREADS, u \in USERS : start(t, u)
    \/ \E t \in THREADS : sa_delete(t)
    \/ cleanup_inactive
    \/ Tick

Spec == Init /\ [][Next]_vars

\* the handlers of one thread, served one at a time
Serial ==
    \/ \E u \in USERS, g \in GENDERS : handle_gender(1, u, g)
    \/ tp_check(1)
    \/ acquire(1)
    \/ tp_claim(1)
    \/ tp_pair(1)
    \/ tp_fail(1)
    \/ tp_enqueue(1)

\* the Reaper's loop with the failures of its store, beside one thread of
\* declarations
ReaperNext ==
    \/ Serial
    \/ Tick
    \/ rp_getconn
    \/ rp_cursor
    \/ rp_execute

ReaperSpec == Init /\ [][ReaperNext]_vars

\* the relay beside one thread of declarations and stops; messages come
\* within the same fifth of a second or minutes apart
RelayNext ==
    \/ Serial
    \/ \E u \in USERS : stop(1, u)
    \/ st_delete(1)
    \/ st_remove(1)
    \/ st_self(1)
    \/ st_unqueue(1)
    \/ Tick
    \/ \E u \in USERS, payload \in PAYLOADS : relay(u, payload)
    \/ rl_lookup
    \/ rl_send

RelaySpec == Init /\ [][RelayNext]_vars

\* the rate limiter under its own clock: messages of users nobody is paired with
RateNext ==
    \/ \E u \in USERS, payload \in PAYLOADS : relay(u, payload)
    \/ rl_lookup
    \/ Elapse

RateSpec == Init /\ [][RateNext]_vars


\* =================================================================== claims
tables == <<queues, active_chats, user_genders>>

\* thread t takes a step of its own that leaves program point pc
leaves(t, pc) == th[t].pc = pc /\ th'[t].pc # pc

row_of(chats, u, p) == \E r \in chats : r.user_id = u /\ r.partner_id = p

\* the session rows without their age: time passing is no change of the store
links(chats) == {<<r.user_id, r.partner_id>> : r \in chats}

\* C1: the session table is symmetric in every reachable state: a row
\* (user_id = U, partner_id = P) exists iff a row (user_id = P, partner_id = U)
\* exists.
C1_Symmetric ==
    \A r \in active_chats : row_of(active_chats, r.partner_id, r.user_id)

\* C2: in every reachable state every user is the user_id of at most one
\* session row.
C2_OneRowPerUser ==
    \A r, s \in active_chats : r.user_id = s.user_id => r = s

\* C2 witness: a pairing transaction has just written over a user who already
\* had a row, and that user still has exactly one row.
C2_Witness ==
    /\ last.outcome = "paired"
    /\ chat_rows(last.pre_chats, last.partner_id) # {}
    /\ Cardinality(chat_rows(active_chats, last.partner_id)) = 1

\* C3: exactly-once claim.  Every get_queue call returns an entry iff the pool
\* holds one of the attribute asked for; the entry it returns leaves the pool
\* in the same step and is held by no other claimant.  (Entries are never
\* re-created: each carries its own stamp.)  So N calls on K < N entries
\* return K distinct entries and N-K times none, and empty the pool.
C3_ExactlyOnce ==
    [][\A t \in THREADS : leaves(t, "tp_claim") =>
          LET pool == {r \in queues : r.gender = opposite(th[t].gender)}
              got == th'[t].partner_data
          IN IF pool = {}
             THEN th'[t].pc = "tp_enqueue" /\ queues' = queues
             ELSE /\ th'[t].pc = "tp_pair"
                  /\ got \in pool
                  /\ queues' = queues \ {got}
                  /\ \A x \in THREADS \ {t} : th'[x].pc = "tp_pair" => th'[x].partner_data # got]_vars

\* C3 witness: two claims for the same attribute in flight against one entry:
\* one holds the entry, the other has come back empty, the pool is empty.
C3_Witness ==
    /\ th[1].pc = "tp_pair"
    /\ th[2].pc = "tp_enqueue"
    /\ th[1].gender = th[2].gender
    /\ {r \in queues : r.gender = opposite(th[1].gender)} = {}

\* C4: FIFO per attribute.  The entry a claim returns has the attribute asked
\* for and was stamped before every other waiting entry of that attribute;
\* an enqueue stamps its entry after every entry already waiting.
C4_Fifo ==
    [][\A t \in THREADS :
          /\ leaves(t, "tp_claim") /\ th'[t].pc = "tp_pair" =>
                LET got == th'[t].partner_data
                IN /\ got.gender = opposite(th[t].gender)
                   /\ \A o \in queues : o.gender = got.gender /\ o # got => got.timestamp < o.timestamp
          /\ leaves(t, "tp_enqueue") =>
                \E e \in queues' : /\ e.user_id = th[t].user_id
                                   /\ \A o \in queues : o.timestamp < e.timestamp]_vars

\* C4 witness: a claim has taken an entry while a younger entry of the same
\* attribute stays behind in the pool.
C4_Witness ==
    \E t \in THREADS :
        /\ th[t].pc = "tp_pair"
        /\ \E o \in queues : /\ o.gender = th[t].partner_data.gender
                             /\ o.timestamp > th[t].partner_data.timestamp

\* C5: try_pair_gender for a user who has a session row when the guard runs
\* is a no-op: the handler returns at once, no table changes, and it sends no
\* message.
C5_AlreadyPairedNoOp ==
    [][\A t \in THREADS : leaves(t, "tp_check") /\ partner_of(th[t].user_id) # None =>
          /\ th'[t] = Idle
          /\ tables' = tables
          /\ th[t].solo => last'.outcome = "already" /\ last'.msgs = th[t].msgs]_vars

\* C5 witness: a declaration by a user already in a chat has just returned.
C5_Witness ==
    /\ last.op = "gender"
    /\ last.outcome = "already"
    /\ last.msgs = <<>>
    /\ chat_rows(active_chats, last.user_id) # {}

\* the run that has just returned hit a store failure raised at random (not
\* the failure the handler's own arguments force)
store_fault == last.outcome = "error" /\ last.partner_id # last.user_id

in_pool(q, u) == \E e \in q : e.user_id = u
told(msgs, to, kind) == Cardinality({i \in DOMAIN msgs : msgs[i] = [to |-> to, kind |-> kind]})

\* C6: try_pair_gender(U, g), run alone for a user U with no session.  If the
\* pool held an entry of opposite(g), U ends paired with the oldest one, C:
\* rows (U,C) and (C,U) exist, neither C nor U is in the pool, and both are
\* told the chat has started.  Otherwise U ends with a waiting entry of
\* attribute g, the session table is as it was, and U is told he is queued.
C6_RequestMatch ==
    (last.op = "gender" /\ chat_rows(last.pre_chats, last.user_id) = {} /\ ~store_fault) =>
        LET U == last.user_id
            C == get_queue(last.pre_queues, opposite(last.gender))
        IN IF C # NoRow
           THEN /\ row_of(active_chats, U, C.user_id)
                /\ row_of(active_chats, C.user_id, U)
                /\ ~in_pool(queues, C.user_id)
                /\ ~in_pool(queues, U)
                /\ told(last.msgs, U, "paired") = 1
                /\ told(last.msgs, C.user_id, "paired") = 1
           ELSE /\ \E e \in queues : e.user_id = U /\ e.gender = last.gender
                /\ links(active_chats) = links(last.pre_chats)
                /\ last.msgs = <<[to |-> U, kind |-> "queued"]>>

\* C7: the pairing transaction of try_pair_gender(U, ..) with candidate C makes
\* the rows (U,C) and (C,U) visible in one step, and it is the handler's last
\* step (one request creates at most one pair).
C7_AtomicPair ==
    [][\A t \in THREADS : leaves(t, "tp_pair") /\ active_chats' # active_chats =>
          /\ row_of(active_chats', th[t].user_id, th[t].partner_id)
          /\ row_of(active_chats', th[t].partner_id, th[t].user_id)
          /\ th'[t] = Idle]_vars

\* C8: rollback.  When the store fails in the pairing attempt of a declaration
\* after a candidate was claimed, the pool and the session table are, once the
\* handler has returned, exactly as they were before the attempt.
C8_Rollback ==
    (last.op = "gender" /\ store_fault) =>
        /\ queues = last.pre_queues
        /\ links(active_chats) = links(last.pre_chats)

\* C9: the pairing transaction writes rows for U and its candidate only if
\* neither has a session row at the instant of the write.
C9_Revalidated ==
    [][\A t \in THREADS : leaves(t, "tp_pair") /\ active_chats' # active_chats =>
          /\ chat_rows(active_chats, th[t].user_id) = {}
          /\ chat_rows(active_chats, th[t].partner_id) = {}]_vars

\* C10: next_match(U), run alone for U paired with P and with a declared
\* attribute g: P's row and the (U,P) row are gone, P is told exactly once
\* that the partner moved on, P has no waiting entry, and U ends paired with
\* the oldest waiting user of opposite(g) or, if there is none, with a waiting
\* entry of attribute g.
C10_AdvanceNext ==
    LET U == last.user_id
        pre == chat_rows(last.pre_chats, U)
        P == IF pre = {} THEN None ELSE (CHOOSE r \in pre : TRUE).partner_id
        grow == gender_rows(last.pre_genders, U)
        g == IF grow = {} THEN "none" ELSE (CHOOSE r \in grow : TRUE).gender
        C == get_queue(remove_from_queue(last.pre_queues, P), opposite(g))
    IN (last.op = "next" /\ P # None /\ P # U /\ row_of(last.pre_chats, P, U) /\ g # "none"
            /\ ~store_fault) =>
          /\ chat_rows(active_chats, P) = {}
          /\ ~row_of(active_chats, U, P)
          /\ told(last.msgs, P, "partner_next") = 1
          /\ ~in_pool(queues, P)
          /\ IF C # NoRow
             THEN row_of(active_chats, U, C.user_id) /\ row_of(active_chats, C.user_id, U)
             ELSE \E e \in queues : e.user_id = U /\ e.gender = g

\* the partner the user of the run in last had when the run started
pre_partner ==
    LET pre == chat_rows(last.pre_chats, last.user_id)
    IN IF pre = {} THEN None ELSE (CHOOSE r \in pre : TRUE).partner_id

\* user u has no session row, no waiting entry and no declared attribute
stop_idle(q, chats, genders, u) ==
    chat_rows(chats, u) = {} /\ ~in_pool(q, u) /\ gender_rows(genders, u) = {}

\* C11: stop(U) run alone.  Afterwards U has no session row, no waiting entry
\* and no declared attribute; if U had a partner P, P has no session row and
\* no waiting entry either and was told exactly once that the partner
\* stopped; nobody else is told anything, and the rows, entries and declared
\* attributes of everybody else are as they were.
C11_Stop ==
    last.op = "stop" =>
        LET U == last.user_id
            P == pre_partner
        IN /\ stop_idle(queues, active_chats, user_genders, U)
           /\ P # None => /\ chat_rows(active_chats, P) = {}
                           /\ ~in_pool(queues, P)
                           /\ told(last.msgs, P, "partner_stop") = 1
           /\ Len(last.msgs) = IF P # None THEN 1 ELSE 0
           /\ queues = {e \in last.pre_queues : e.user_id \notin {U, P}}
           /\ links(active_chats) = {l \in links(last.pre_chats) : l[1] \notin {U, P}}
           /\ user_genders = {r \in last.pre_genders : r.user_id # U}

\* C11 witness: a paired user has just stopped, and the partner also had a
\* waiting entry.
C11_Witness ==
    /\ last.op = "stop"
    /\ pre_partner \notin {None, last.user_id}
    /\ in_pool(last.pre_queues, pre_partner)
    /\ told(last.msgs, pre_partner, "partner_stop") = 1

\* C12: stop is idempotent.  A completed stop(U) leaves U with no session
\* row, no waiting entry and no declared attribute, and stop(U) on a user in
\* that condition (the second of two calls in a row, or a call by an idle
\* user) changes no table and sends no message.
C12_StopIdempotent ==
    last.op = "stop" =>
        /\ stop_idle(queues, active_chats, user_genders, last.user_id)
        /\ stop_idle(last.pre_queues, last.pre_chats, last.pre_genders, last.user_id) =>
                /\ queues = last.pre_queues
                /\ links(active_chats) = links(last.pre_chats)
                /\ user_genders = last.pre_genders
                /\ last.msgs = <<>>

\* C12 witness: an idle user has just stopped while other users hold a
\* session and a declared attribute.
C12_Witness ==
    /\ last.op = "stop"
    /\ stop_idle(last.pre_queues, last.pre_chats, last.pre_genders, last.user_id)
    /\ active_chats # {}
    /\ user_genders # {}

\* the sample texts that hold a forbidden word in some casing
Dirty == {SpamContent, MixedCase, Shouted}

C14_RelayReadsOnly ==
    [][(rl' # rl \/ last'.op = "relay") => tables' = tables /\ qclock' = qclock]_vars

\* C14 witness: a message has just been forwarded to the partner of a user
\* whose session row is minutes old, and the row is as old as before.
C14_Witness ==
    /\ last.op = "relay"
    /\ last.outcome = "forwarded"
    /\ active_chats = last.pre_chats
    /\ \E r \in active_chats : r.user_id = last.user_id /\ r.partner_id = last.partner_id /\ r.age > 0

\* C15: is_rate_limited(U) rejects iff U has an accepted timestamp less than
\* a window old; when it accepts it records the present moment (so an
\* accepted message is a full window after every earlier accepted message of
\* that user), and when it rejects it records nothing.
C15_RateLimiter ==
    [][\A u \in USERS :
          LET before == rate_limits[u]
              within == \E i \in DOMAIN before : before[i] < RateWindow
              kept == SelectSeq(before, LAMBDA age : age < RateWindow)
              rejected == last'.op = "relay" /\ last'.outcome = "rate_limited" /\ last'.user_id = u
              accepted == rl'.pc = "rl_lookup" /\ rl'.user_id = u
          IN (rl.pc = "idle" /\ ops' = ops + 1 /\ (rejected \/ accepted)) =>
                /\ rejected <=> within
                /\ accepted <=> ~within
                /\ accepted => rate_limits'[u] = <<0>> /\ \A i \in DOMAIN before : before[i] >= RateWindow
                /\ rejected => rate_limits'[u] = kept]_vars

\* C15 witness: a second message a fifth of a second (200 ms) after an
\* accepted one has just been rejected.
C15_Witness ==
    /\ last.op = "relay"
    /\ last.outcome = "rate_limited"
    /\ rate_limits[last.user_id] = <<1>>

\* C16: a Reaper sweep deletes exactly the session rows stamped more than
\* five minutes before it and keeps the rows stamped within the last five
\* minutes: a row six minutes old is gone, a row four minutes old survives.
C16_ReaperThreshold ==
    (last.op = "sweep" /\ last.outcome = "done") =>
        /\ active_chats = {r \in last.pre_chats : r.age <= 5}
        /\ \A r \in last.pre_chats : (r.age >= 6 => r \notin active_chats)
                                      /\ (r.age = 4 => r \in active_chats)

\* C16 witness: a sweep has just deleted a row six minutes old and kept a
\* row four minutes old.
C16_Witness ==
    /\ last.op = "sweep"
    /\ last.outcome = "done"
    /\ \E r \in last.pre_chats : r.age >= 6 /\ r \notin active_chats
    /\ \E r \in last.pre_chats : r.age = 4 /\ r \in active_chats

\* C17: no failure of a sweep (getting the connection, opening the cursor,
\* the DELETE, the commit) ends the Reaper: its thread is always either in a
\* sweep or asleep before the next one.
C17_ReaperSurvives ==
    reaper.pc # "dead"

\* C18: a handler that is to claim from the pool never waits for another
\* handler's claim, enqueue or withdraw in flight: its next step is enabled
\* whatever the other handlers are doing.
C18_NonBlocking ==
    \A t \in THREADS : th[t].pc = "tp_claim" => ENABLED (acquire(t) \/ tp_claim(t))

\* C19: last-writer-wins on both sides.  When the pairing transaction writes
\* the pair (a, b) and a or b already has a session row, then after the write
\* a's row points to b, b's row points to a, and both rows carry the same
\* fresh stamp.
C19_Overwrite ==
    [][\A t \in THREADS :
          LET a == th[t].user_id
              b == th[t].partner_id
          IN (leaves(t, "tp_pair") /\ active_chats' # active_chats
                /\ (chat_rows(active_chats, a) # {} \/ chat_rows(active_chats, b) # {})) =>
                /\ chat_rows(active_chats', a) = {[user_id |-> a, partner_id |-> b, age |-> 0]}
                /\ chat_rows(active_chats', b) = {[user_id |-> b, partner_id |-> a, age |-> 0]}]_vars

\* C20: next_match(U) for a user U with no session row tells U that he is
\* not in a chat and does nothing else: no table changes (a waiting U keeps
\* his entry and its stamp) and nobody else is told anything.
C20_NextNotPaired ==
    (last.op = "next" /\ chat_rows(last.pre_chats, last.user_id) = {}) =>
        /\ last.outcome = "not_paired"
        /\ last.msgs = <<[to |-> last.user_id, kind |-> "not_in_chat"]>>
        /\ queues = last.pre_queues
        /\ active_chats = last.pre_chats
        /\ user_genders = last.pre_genders

\* C20 witness: a waiting user with a declared attribute has just asked for
\* the next match and is still waiting.
C20_Witness ==
    /\ last.op = "next"
    /\ last.outcome = "not_paired"
    /\ in_pool(queues, last.user_id)
    /\ gender_rows(user_genders, last.user_id) # {}

\* C21: enqueue is an upsert keyed by user.  After add_to_queue(U, g, nick)
\* the pool holds exactly one entry for U, with attribute g, the alias drawn
\* for it and a stamp later than that of every entry that was waiting (a
\* re-enqueued user moves behind them); the entries of all other users are as
\* they were; the call ends normally whether or not U had an entry; and in
\* every state each user has at most one waiting entry.
C21_EnqueueUpsert ==
    [][/\ \A t \in THREADS : leaves(t, "tp_enqueue") =>
             LET U == th[t].user_id
                 mine == {e \in queues' : e.user_id = U}
             IN /\ Cardinality(mine) = 1
                /\ \A e \in mine : /\ e.gender = th[t].gender
                                   /\ e.nick \in generate_pseudonym(th[t].gender)
                                   /\ \A o \in queues : o.timestamp < e.timestamp
                /\ {e \in queues' : e.user_id # U} = {e \in queues : e.user_id # U}
                /\ th'[t] = Idle
                /\ th[t].solo => last'.outcome = "queued"
       /\ \A r, s \in queues' : r.user_id = s.user_id => r = s]_vars

\* C21 witness: a user who was waiting ahead of another user has just been
\* enqueued again and now waits behind that user.
C21_Witness ==
    /\ last.op = "gender"
    /\ last.outcome = "queued"
    /\ \E old \in last.pre_queues, e \in queues, o \in queues :
          /\ old.user_id = last.user_id
          /\ e.user_id = last.user_id
          /\ o.user_id # last.user_id
          /\ old.timestamp < o.timestamp
          /\ o.timestamp < e.timestamp

C23_SweepFrame ==
    [][reaper' # reaper =>
          /\ queues' = queues
          /\ qclock' = qclock
          /\ user_genders' = user_genders
          /\ last'.msgs = <<>>
          /\ \A t \in THREADS : th'[t].msgs \in {th[t].msgs, <<>>}
          /\ rl' = rl]_vars

\* C23 witness: a sweep has just deleted the session of a user who has a
\* waiting entry and a declared attribute, and both are still there.
C23_Witness ==
    /\ last.op = "sweep"
    /\ last.outcome = "done"
    /\ last.msgs = <<>>
    /\ \E r \in last.pre_chats :
          /\ chat_rows(active_chats, r.user_id) = {}
          /\ in_pool(queues, r.user_id)
          /\ gender_rows(user_genders, r.user_id) # {}

\* C24: relay delivers only to the sender's partner.  A relay from U whose
\* lookup finds no session row forwards nothing: it ends there with the
\* "no partner" reply to U.  Otherwise the delivery goes to exactly one user,
\* and that user is U's partner in the session table at the moment of the
\* delivery, whatever other handlers have done since the lookup.
C24_RelayToPartner ==
    [][/\ (rl.pc = "rl_lookup" /\ rl' # rl /\ partner_of(rl.user_id) = None) =>
             /\ rl' = RelayIdle
             /\ last'.msgs = <<[to |-> rl.user_id, kind |-> "no_partner"]>>
       /\ (rl.pc = "rl_send" /\ rl' # rl) =>
             /\ Len(last'.msgs) = 1
             /\ last'.msgs[1].to = partner_of(rl.user_id)]_vars

\* C25: the pool and the sessions are disjoint: in every reachable state no
\* user has both a waiting entry and a session row.
C25_Disjoint ==
    \A e \in queues : chat_rows(active_chats, e.user_id) = {}

\* C26: no self-pairing: in every reachable state no session row has
\* partner_id equal to its own user_id.
C26_NoSelfPair ==
    \A r \in active_chats : r.partner_id # r.user_id

\* the program points of try_pair_gender
MATCH_PCS == {"tp_check", "tp_claim", "tp_pair", "tp_enqueue"}

\* C27: no missed match: in every state where no try_pair_gender is in
\* flight, the pool does not hold an entry of one attribute and an entry of
\* the other.
C27_NoMissedMatch ==
    (\A t \in THREADS : th[t].pc \notin MATCH_PCS) =>
        ~(\E a, b \in queues : a.gender = "male" /\ b.gender = "female")

\* C28: sessions are one-to-one: in every reachable state no user is the
\* partner_id of two session rows with different user_id.
C28_OneToOne ==
    \A r, s \in active_chats : r.partner_id = s.partner_id => r.user_id = s.user_id

\* user u has a try_pair_gender of his own in flight
matching(u) == \E x \in THREADS : th[x].user_id = u /\ th[x].pc \in MATCH_PCS

\* the candidate of every pair written was claimed from the waiting entries
\* of the attribute opposite to the caller's
EntryOpposite ==
    [][\A t \in THREADS : leaves(t, "tp_pair") /\ active_chats' # active_chats =>
          /\ th[t].partner_data.user_id = th[t].partner_id
          /\ th[t].partner_data.gender = opposite(th[t].gender)]_vars

\* C29: opposite attributes only.  Every pair that try_pair_gender(U, g)
\* writes joins U with a candidate whose waiting entry had the attribute
\* opposite(g), and no session is created between two users who entered
\* matching with the same attribute: the candidate, when no request of his
\* own is still in flight, is not a user whose latest declaration was g.
C29_OppositeOnly ==
    [][\A t \in THREADS : leaves(t, "tp_pair") /\ active_chats' # active_chats =>
          /\ th[t].partner_data.user_id = th[t].partner_id
          /\ th[t].partner_data.gender = opposite(th[t].gender)
          /\ ~matching(th[t].partner_id) => gender_of(th[t].partner_id) # th[t].gender]_vars

=============================================================================
